---- MODULE Spec2Model ----
(***************************************************************************)
(* Model of the Legion MCP server (src/PostgresSQLMCPServer/mcp_server.py).*)
(*                                                                         *)
(* The process is modelled from module load to exit: init_query_runner,    *)
(* the decorator registrations, main()/mcp.run(), the db_lifespan entry    *)
(* with its connectivity check, the handlers served during the session and *)
(* the shutdown.  The query backend (legion_query_runner.QueryRunner) is   *)
(* external: every call on it either raises or returns one of a bounded    *)
(* set of results.                                                         *)
(*                                                                         *)
(* Python values:                                                          *)
(*   - Optional[x] is the empty sequence << >> (None) or << x >>;          *)
(*   - a dict is a function whose DOMAIN is its key set;                   *)
(*   - a str is a TLA+ string, built with \o as the code builds it;        *)
(*   - a cell value is a record [t |-> type name, v |-> payload].          *)
(***************************************************************************)
EXTENDS Integers, Sequences, FiniteSets, TLC

VARIABLES
    argv,          \* parsed command line: [db_type, db_config], each Optional[str]
    environ,       \* process environment: dict over DB_TYPE / DB_CONFIG
    phase,         \* position of the process: load, loaded, registered, serving, exited
    query_runner,  \* module global query_runner: Optional[QueryRunner]
    registry,      \* what the decorators registered on the FastMCP instance
    db_context,    \* Optional[DbContext] yielded by db_lifespan
    stdout,        \* lines printed so far
    exit_code,     \* Optional[int], set when the process has ended
    conn_checks,   \* number of query_runner.test_connection() calls made
    backend_log,   \* the backend's side of the calls: the queries run_query
                   \* answered, its last answer, whether the last call raised
    response       \* last value a handler returned to the protocol layer

vars == << argv, environ, phase, query_runner, registry, db_context, stdout,
           exit_code, conn_checks, backend_log, response >>

-----------------------------------------------------------------------------
(* Bounds of the model *)

\* Largest number of rows a backend result holds.
MaxRows == 11

\* Largest number of queries executed in one session.
MaxHistory == 3

-----------------------------------------------------------------------------
(* Program constants *)

\* Number of rows execute_query displays.
DisplayLimit == 10

-----------------------------------------------------------------------------
(* Python helpers *)

None == << >>

Some(x) == << x >>

\* dict.get(key, default)
DictGet(d, key, default) == IF key \in DOMAIN d THEN d[key] ELSE default

\* str.startswith
StartsWith(s, prefix) ==
    /\ Len(s) >= Len(prefix)
    /\ SubSeq(s, 1, Len(prefix)) = prefix

\* sep.join(parts) for a list of str
RECURSIVE Join(_, _)
Join(sep, parts) ==
    IF Len(parts) = 0 THEN ""
    ELSE IF Len(parts) = 1 THEN parts[1]
    ELSE parts[1] \o sep \o Join(sep, Tail(parts))

\* s.split("\n"): the lines of a text (always at least one, possibly empty)
Lines(s) ==
    LET breaks == { i \in 1..Len(s) : SubSeq(s, i, i) = "\n" }
        break(k) == CHOOSE i \in breaks : Cardinality({ j \in breaks : j < i }) = k - 1
        n == Cardinality(breaks)
    IN  [k \in 1..(n + 1) |->
            SubSeq(s, IF k = 1 THEN 1 ELSE break(k - 1) + 1,
                      IF k = n + 1 THEN Len(s) ELSE break(k) - 1)]

\* list[:n]
Take(list, n) == SubSeq(list, 1, IF Len(list) < n THEN Len(list) ELSE n)

\* Cell values a backend hands back in a row.
PyInt(n) == [t |-> "int", v |-> n]

PyStr(n) == [t |-> "str", v |-> n]       \* the string "user<n>"

PyDate(n) == [t |-> "date", v |-> n]     \* datetime.date(2024, 1, 10 + n)

PyNone == [t |-> "NoneType", v |-> 0]

\* str(cell)
Str(cell) ==
    CASE cell.t = "int" -> ToString(cell.v)
      [] cell.t = "str" -> "user" \o ToString(cell.v)
      [] cell.t = "date" -> "2024-01-" \o ToString(10 + cell.v)
      [] OTHER -> "None"

\* Whether json.dumps can encode a cell with the default encoder.
JsonSerializable(cell) == cell.t \in {"int", "str", "NoneType"}

\* What json.dumps writes for an encodable cell.
ToJson(cell) ==
    CASE cell.t = "int" -> [j |-> "number", v |-> cell.v]
      [] cell.t = "str" -> [j |-> "string", v |-> cell.v]
      [] OTHER -> [j |-> "null", v |-> 0]

\* A raised exception and a returned value, as outcomes of a call.
Raise(msg) == [ok |-> FALSE, msg |-> msg]

Return(value) == [ok |-> TRUE, value |-> value]

-----------------------------------------------------------------------------
(* Startup inputs *)

\* Connection configuration strings given on the command line or in DB_CONFIG.
ValidConfig == "{\"host\": \"db\"}"

ArgvValues ==
    [db_type : {None, Some("mysql")},
     db_config : {None, Some(ValidConfig)}]

NoFlags == [db_type |-> None, db_config |-> None]

EnvKeys == {"DB_TYPE", "DB_CONFIG"}

EnvValuesOf(key) ==
    IF key = "DB_TYPE" THEN {"", "postgresql"}
    ELSE {"{}", "{not json", "null", ValidConfig}

EnvironValues ==
    { e \in UNION { [D -> EnvValuesOf("DB_TYPE") \cup EnvValuesOf("DB_CONFIG")] :
                        D \in SUBSET EnvKeys } :
        \A k \in DOMAIN e : e[k] \in EnvValuesOf(k) }

\* os.getenv(key, default)
Getenv(key, default) == DictGet(environ, key, default)

\* Python truthiness of an Optional[str]: None and "" are falsy.
TruthyStr(opt) == opt # None /\ opt[1] # ""

\* json.loads on the configuration strings above.  A parsed value is
\* [t |-> "dict", items |-> set of <<key, value>>] or [t |-> "NoneType", ...].
JsonLoads(s) ==
    CASE s = ValidConfig -> Return([t |-> "dict", items |-> {<<"host", "db">>}])
      [] s = "{}" -> Return([t |-> "dict", items |-> {}])
      [] s = "null" -> Return([t |-> "NoneType", items |-> {}])
      [] s = "" -> Raise("Expecting value: line 1 column 1 (char 0)")
      [] OTHER -> Raise("Expecting property name enclosed in double quotes: line 1 column 2 (char 1)")

\* Python truthiness of a parsed configuration: None and {} are falsy.
TruthyConfig(value) == value.t = "dict" /\ value.items # {}

\* QueryRunner(db_type=..., configuration=...): the external constructor
\* either returns the runner or raises.
QueryRunnerNew(db_type, db_config) ==
    { Return([db_type |-> db_type, configuration |-> db_config]),
      Raise("Unsupported database type: " \o db_type) }

\* The usage text printed by the module-level except branch.
UsageLines ==
    << "\nUsage:",
       "1. For MCP CLI mode:",
       "   Set environment variables: DB_TYPE, DB_HOST, DB_PORT, DB_USER, DB_PASSWORD, DB_NAME",
       "   Then run: mcp install mcp_server.py",
       "   Or: mcp dev mcp_server.py",
       "\n2. For direct execution:",
       "   python mcp_server.py --db-type <db_type> --db-config '<json_config>'",
       "   Example: python mcp_server.py --db-type mysql --db-config '{\"host\":\"localhost\",\"port\":3306,\"user\":\"root\",\"password\":\"pass\",\"database\":\"test\"}'" >>

\* The database kind init_query_runner settles on: the flag, else DB_TYPE,
\* else the default "pg".
ResolveDbType ==
    IF TruthyStr(argv.db_type) THEN argv.db_type[1] ELSE Getenv("DB_TYPE", "pg")

\* The configuration string init_query_runner settles on: the flag, else
\* DB_CONFIG, else "".
ResolveDbConfigStr ==
    IF TruthyStr(argv.db_config) THEN argv.db_config[1] ELSE Getenv("DB_CONFIG", "")

\* init_query_runner(): the outcomes of one call, each with the lines it
\* printed before returning or raising.
init_query_runner ==
    LET db_type == ResolveDbType
        parsed == JsonLoads(ResolveDbConfigStr)
        banner == "Initializing query runner for " \o db_type \o " database..."
    IN  IF ~parsed.ok
        THEN { [out |-> Raise(parsed.msg), printed |-> << >>] }
        ELSE IF db_type = "" \/ ~TruthyConfig(parsed.value)
        THEN { [out |-> Raise("Database type and configuration are required"),
                printed |-> << >>] }
        ELSE { [out |-> o, printed |-> << banner >>] :
                   o \in QueryRunnerNew(db_type, parsed.value) }

-----------------------------------------------------------------------------
(* Session state *)

\* DbContext(query_runner=...), with __post_init__ replacing the None
\* history by an empty list.
DbContext(runner) ==
    [query_runner |-> runner,
     last_query |-> None,
     last_result |-> None,
     query_history |-> << >>]

\* What the protocol layer got back from the last handler call: the str the
\* handler returned (kind "text", or kind "json" with the document that
\* json.dumps wrote), or the exception that left the handler (kind "raised").
NoResponse == [op |-> "", kind |-> "none", text |-> "", doc |-> << >>]

TextResponse(op, text) == [op |-> op, kind |-> "text", text |-> text, doc |-> << >>]

JsonResponse(op, doc) == [op |-> op, kind |-> "json", text |-> "", doc |-> << doc >>]

RaisedResponse(op, msg) == [op |-> op, kind |-> "raised", text |-> msg, doc |-> << >>]

EmptyRegistry == [resources |-> {}, tools |-> {}, prompts |-> {}]

\* The process is started either with flags and an empty environment or
\* with no flag and any environment.
StartupInputs ==
    { [argv |-> a, environ |-> << >>] : a \in ArgvValues }
        \cup { [argv |-> NoFlags, environ |-> e] : e \in EnvironValues }

Init ==
    /\ \E i \in StartupInputs : argv = i.argv /\ environ = i.environ
    /\ phase = "load"
    /\ query_runner = None
    /\ registry = EmptyRegistry
    /\ db_context = None
    /\ stdout = << >>
    /\ exit_code = None
    /\ conn_checks = 0
    /\ backend_log = [queries |-> << >>, last |-> None, raised |-> FALSE]
    /\ response = NoResponse

-----------------------------------------------------------------------------
(* Startup *)

\* Module-level try/except around init_query_runner(): on any exception the
\* error and the usage text are printed and the process exits with status 1.
LoadModule ==
    /\ phase = "load"
    /\ \E r \in init_query_runner :
        IF r.out.ok
        THEN /\ query_runner' = Some(r.out.value)
             /\ stdout' = stdout \o r.printed
             /\ phase' = "loaded"
             /\ exit_code' = exit_code
        ELSE /\ query_runner' = query_runner
             /\ stdout' = stdout \o r.printed
                            \o << "Error initializing query runner: " \o r.out.msg >>
                            \o UsageLines
             /\ phase' = "exited"
             /\ exit_code' = Some(1)
    /\ UNCHANGED << argv, environ, registry, db_context, conn_checks,
                    backend_log, response >>

\* Variant of Registrations: get_schema is registered as a tool as well.
RegistrationsSchemaTool ==
    [resources |-> {"schema://all"},
     tools |-> {"get_schema", "get_query_history", "execute_query",
                "execute_query_json", "get_table_columns", "get_table_types"},
     prompts |-> {"sql_query", "explain_query", "optimize_query"}]

\* The decorators evaluated while the rest of the module loads.
Registrations ==
    [resources |-> {"schema://all"},
     tools |-> {"get_query_history", "execute_query", "execute_query_json",
                "get_table_columns", "get_table_types"},
     prompts |-> {"sql_query", "explain_query", "optimize_query"}]

RegisterHandlers ==
    /\ phase = "loaded"
    /\ registry' = Registrations
    /\ phase' = "registered"
    /\ UNCHANGED << argv, environ, query_runner, db_context, stdout, exit_code,
                    conn_checks, backend_log, response >>

\* main(): print the banner and enter mcp.run().
Main ==
    /\ phase = "registered"
    /\ stdout' = Append(stdout, "Starting Legion MCP server...")
    /\ phase' = "running"
    /\ UNCHANGED << argv, environ, query_runner, registry, db_context, exit_code,
                    conn_checks, backend_log, response >>

\* query_runner.test_connection(): returns or raises.
TestConnection == { Return(TRUE), Raise("could not connect to server") }

\* Variant of DbLifespanEnter: the context is yielded without the
\* connectivity check.
DbLifespanEnterUnchecked ==
    /\ phase = "running"
    /\ db_context' = Some(DbContext(query_runner[1]))
    /\ phase' = "serving"
    /\ UNCHANGED << argv, environ, query_runner, registry, stdout, exit_code,
                    conn_checks, backend_log, response >>

\* db_lifespan up to its yield: build the context, test the connection and
\* hand the context to the handlers.  An exception of test_connection passes
\* through the empty finally and out of mcp.run(), ending the process with
\* a traceback and status 1.
DbLifespanEnter ==
    /\ phase = "running"
    /\ conn_checks' = conn_checks + 1
    /\ \E t \in TestConnection :
        IF t.ok
        THEN /\ db_context' = Some(DbContext(query_runner[1]))
             /\ phase' = "serving"
             /\ exit_code' = exit_code
        ELSE /\ db_context' = None
             /\ phase' = "exited"
             /\ exit_code' = Some(1)
    /\ UNCHANGED << argv, environ, query_runner, registry, stdout, backend_log,
                    response >>

\* The client closes the stream: db_lifespan resumes after the yield, the
\* context is dropped and mcp.run() returns.
Shutdown ==
    /\ phase = "serving"
    /\ db_context' = None
    /\ phase' = "exited"
    /\ exit_code' = Some(0)
    /\ UNCHANGED << argv, environ, query_runner, registry, stdout, conn_checks,
                    backend_log, response >>

-----------------------------------------------------------------------------
(* The backend's answers *)

Queries == {"SELECT 1", "SELECT * FROM users"}

Tables == {"users"}

\* Column descriptors: dicts with 'name', an optional 'friendly_name', 'type'.
UsersColumns ==
    << [name |-> "id", friendly_name |-> "ID", type |-> "integer"],
       [name |-> "name", type |-> "string"] >>

EventsColumns == << [name |-> "at", type |-> "date"] >>

\* Rows: dicts from column name to value.  Every fourth users row lacks
\* its 'name' key.
UsersRow(i) ==
    IF i % 4 = 0 THEN [id |-> PyInt(i)] ELSE [id |-> PyInt(i), name |-> PyStr(i)]

EventsRow(i) == [at |-> PyDate(i)]

BareRow(i) == [n |-> PyInt(i)]

\* The results the backend answers with: a layout and a row count, the
\* counts chosen on both sides of the display limit.
ResultShapes ==
    { << "users", n >> : n \in {0, 2} \cup (DisplayLimit..MaxRows) }
        \cup { << "events", n >> : n \in {1, MaxRows} }
        \cup { << "bare", n >> : n \in {1, MaxRows} }

\* A result dict of n rows.  A "bare" result carries no 'columns' key and a
\* "users" result of no rows carries no 'rows' key.
BackendResult(layout, n) ==
    CASE layout = "users" /\ n = 0 -> [columns |-> UsersColumns]
      [] layout = "users" /\ n > 0 ->
            [columns |-> UsersColumns, rows |-> [i \in 1..n |-> UsersRow(i)]]
      [] layout = "events" ->
            [columns |-> EventsColumns, rows |-> [i \in 1..n |-> EventsRow(i)]]
      [] OTHER -> [rows |-> [i \in 1..n |-> BareRow(i)]]

\* query_runner.run_query(query): raises or returns a result dict.
RunQuery(query) ==
    { Raise("relation does not exist") }
        \cup { Return(BackendResult(s[1], s[2])) : s \in ResultShapes }

\* query_runner.get_schema(), already through json.dumps.
GetSchemaCall ==
    { Raise("permission denied"),
      Return("[{\"name\": \"users\", \"columns\": [\"id\", \"name\"]}]") }

\* query_runner.get_table_columns(table_name), already through json.dumps.
GetTableColumnsCall(table_name) ==
    { Raise("Table " \o table_name \o " not found"), Return("[\"id\", \"name\"]") }

\* query_runner.get_table_types(table_name), already through json.dumps.
GetTableTypesCall(table_name) ==
    { Raise("Table " \o table_name \o " not found"),
      Return("[\"integer\", \"string\"]") }

-----------------------------------------------------------------------------
(* Handlers *)

\* Variant of get_schema: no except branch, the exception leaves the handler.
get_schema_unguarded(call) ==
    IF call.ok THEN Return(call.value) ELSE Raise(call.msg)

\* get_schema(): the schema as JSON text, or the error as text.
get_schema(call) ==
    IF call.ok THEN Return(call.value)
    ELSE Return("Error getting schema: " \o call.msg)

\* get_query_history(ctx): one bullet line per recorded query.
get_query_history(ctx) ==
    IF Len(ctx.query_history) > 0
    THEN LET history_list ==
                 Join("\n", [i \in 1..Len(ctx.query_history) |->
                                 "- " \o ctx.query_history[i]])
         IN  Return("Query history:\n" \o history_list)
    ELSE Return("No queries have been executed yet.")

\* Variant of RecordQuery: the query is put at the front of the history.
RecordQueryPrepend(ctx, query, result) ==
    [ctx EXCEPT !.last_query = Some(query),
                !.last_result = Some(result),
                !.query_history = << query >> \o @]

\* Variant of RecordQuery: last_result is not assigned.
RecordQueryNoResult(ctx, query, result) ==
    [ctx EXCEPT !.last_query = Some(query),
                !.query_history = Append(@, query)]

\* The three assignments of _execute_and_get_results that record a query.
RecordQuery(ctx, query, result) ==
    [ctx EXCEPT !.last_query = Some(query),
                !.last_result = Some(result),
                !.query_history = Append(@, query)]

\* Variant of ExecuteAndGetResults: the query is recorded before run_query
\* is called, so that it stays recorded when the call raises.
ExecuteAndGetResultsRecordFirst(query, ctx, call) ==
    IF ~call.ok
    THEN [ctx |-> [ctx EXCEPT !.last_query = Some(query),
                              !.query_history = Append(@, query)],
          out |-> Raise(call.msg)]
    ELSE LET result == call.value
             columns == DictGet(result, "columns", << >>)
             rows == DictGet(result, "rows", << >>)
         IN  [ctx |-> RecordQuery(ctx, query, result),
              out |-> Return([column_names |->
                                  [c \in 1..Len(columns) |->
                                      DictGet(columns[c], "friendly_name",
                                              DictGet(columns[c], "name", ""))],
                              columns |-> columns,
                              rows |-> [i \in 1..Len(rows) |->
                                           [c \in 1..Len(columns) |->
                                               DictGet(rows[i],
                                                       DictGet(columns[c], "name", ""),
                                                       PyNone)]],
                              raw_rows |-> rows,
                              row_count |-> Len(rows)])]

\* _execute_and_get_results(query, ctx) for the backend outcome `call`:
\* the context it leaves and the dict it returns (or the exception).
ExecuteAndGetResults(query, ctx, call) ==
    IF ~call.ok
    THEN [ctx |-> ctx, out |-> Raise(call.msg)]
    ELSE LET result == call.value
             columns == DictGet(result, "columns", << >>)
             column_names ==
                 [c \in 1..Len(columns) |->
                     DictGet(columns[c], "friendly_name",
                             DictGet(columns[c], "name", ""))]
             rows == DictGet(result, "rows", << >>)
             processed_rows ==
                 [i \in 1..Len(rows) |->
                     [c \in 1..Len(columns) |->
                         DictGet(rows[i], DictGet(columns[c], "name", ""), PyNone)]]
         IN  [ctx |-> RecordQuery(ctx, query, result),
              out |-> Return([column_names |-> column_names,
                              columns |-> columns,
                              rows |-> processed_rows,
                              raw_rows |-> rows,
                              row_count |-> Len(rows)])]

\* One line of the markdown table.
TableRow(row) == Join(" | ", [c \in 1..Len(row) |-> Str(row[c])])

\* Variant of DisplayedRows: the slice is one row too long.
DisplayedRowsOneMore(rows) == Take(rows, DisplayLimit + 1)

\* The rows execute_query displays: result['rows'][:10].
DisplayedRows(rows) == Take(rows, DisplayLimit)

\* The trailing note of execute_query, "" when there is none.
MoreRowsNote(row_count) ==
    IF row_count > DisplayLimit
    THEN "\n\n... and " \o ToString(row_count - DisplayLimit)
             \o " more rows (total: " \o ToString(row_count) \o ")"
    ELSE ""

\* The markdown table execute_query builds from the helper's dict.
ResultTable(result) ==
    LET header == Join(" | ", result.column_names)
        separator == Join(" | ", [c \in 1..Len(result.column_names) |-> "---"])
        shown == DisplayedRows(result.rows)
        table_rows == [i \in 1..Len(shown) |-> TableRow(shown[i])]
    IN  header \o "\n" \o separator \o "\n" \o Join("\n", table_rows)
            \o MoreRowsNote(result.row_count)

\* The wording of the except branch of execute_query / execute_query_json.
QueryErrorText(msg) == "Error executing query: " \o msg

\* execute_query(query, ctx)
execute_query(query, ctx, call) ==
    LET h == ExecuteAndGetResults(query, ctx, call)
    IN  IF h.out.ok
        THEN [ctx |-> h.ctx, out |-> Return(ResultTable(h.out.value)), doc |-> None]
        ELSE [ctx |-> h.ctx, out |-> Return(QueryErrorText(h.out.msg)), doc |-> None]

\* json.dumps(output, indent=2): the document written, or the TypeError of
\* the default encoder on a value it cannot encode.
JsonDumps(output) ==
    IF \A i \in 1..Len(output.rows) :
            \A k \in DOMAIN output.rows[i] : JsonSerializable(output.rows[i][k])
    THEN Return([columns |-> output.columns,
                 rows |-> [i \in 1..Len(output.rows) |->
                              [k \in DOMAIN output.rows[i] |->
                                  ToJson(output.rows[i][k])]],
                 row_count |-> output.row_count])
    ELSE Raise("Object of type date is not JSON serializable")

\* Variant of JsonOutput: the rows are cut as in the table form.
JsonOutputTruncated(result) ==
    [columns |-> result.column_names,
     rows |-> Take(result.raw_rows, DisplayLimit),
     row_count |-> result.row_count]

\* The dict execute_query_json serialises.
JsonOutput(result) ==
    [columns |-> result.column_names,
     rows |-> result.raw_rows,
     row_count |-> result.row_count]

\* execute_query_json(query, ctx)
execute_query_json(query, ctx, call) ==
    LET h == ExecuteAndGetResults(query, ctx, call)
    IN  IF h.out.ok
        THEN LET dumped == JsonDumps(JsonOutput(h.out.value))
             IN  IF dumped.ok
                 THEN [ctx |-> h.ctx, out |-> Return(""), doc |-> Some(dumped.value)]
                 ELSE [ctx |-> h.ctx, out |-> Return(QueryErrorText(dumped.msg)),
                       doc |-> None]
        ELSE [ctx |-> h.ctx, out |-> Return(QueryErrorText(h.out.msg)), doc |-> None]

\* get_table_columns(table_name)
get_table_columns(table_name, call) ==
    IF call.ok THEN Return(call.value)
    ELSE Return("Error getting columns for table " \o table_name \o ": " \o call.msg)

\* get_table_types(table_name)
get_table_types(table_name, call) ==
    IF call.ok THEN Return(call.value)
    ELSE Return("Error getting types for table " \o table_name \o ": " \o call.msg)

\* The prompt templates.
sql_query == "Please help me write a SQL query for the following question:\n\n"

\* The Markdown code fence of the templates.  A TLA+ string cannot hold a
\* backquote, so the three backquotes are written as three quotes.
Fence == "'''"

explain_query(query) ==
    "Can you explain what the following SQL query does?\n\n" \o Fence \o "sql\n"
        \o query \o "\n" \o Fence

optimize_query(query) ==
    "Can you optimize the following SQL query for better performance?\n\n"
        \o Fence \o "sql\n" \o query \o "\n" \o Fence

\* What the protocol layer records for a handler outcome.
Respond(op, out, doc) ==
    IF ~out.ok THEN RaisedResponse(op, out.msg)
    ELSE IF doc # None THEN JsonResponse(op, doc[1])
    ELSE TextResponse(op, out.value)

-----------------------------------------------------------------------------
(* Requests served during the session *)

\* The backend's record after run_query(query) ended as `call`.
LogQuery(query, call) ==
    IF call.ok
    THEN [queries |-> Append(backend_log.queries, query),
          last |-> Some([query |-> query, result |-> call.value]),
          raised |-> FALSE]
    ELSE [backend_log EXCEPT !.raised = TRUE]

\* The backend's record after one of its metadata calls ended as `call`.
LogCall(call) == [backend_log EXCEPT !.raised = ~call.ok]

Ctx == db_context[1]

GetSchema ==
    /\ phase = "serving"
    /\ "schema://all" \in registry.resources
    /\ \E call \in GetSchemaCall :
        /\ response' = Respond("get_schema", get_schema(call), None)
        /\ backend_log' = LogCall(call)
    /\ UNCHANGED << argv, environ, phase, query_runner, registry, db_context,
                    stdout, exit_code, conn_checks >>

\* Variant of GetQueryHistory: the history is emptied once rendered.
GetQueryHistoryClearing ==
    /\ phase = "serving"
    /\ "get_query_history" \in registry.tools
    /\ response' = Respond("get_query_history", get_query_history(Ctx), None)
    /\ db_context' = Some([Ctx EXCEPT !.query_history = << >>])
    /\ UNCHANGED << argv, environ, phase, query_runner, registry,
                    stdout, exit_code, conn_checks, backend_log >>

GetQueryHistory ==
    /\ phase = "serving"
    /\ "get_query_history" \in registry.tools
    /\ response' = Respond("get_query_history", get_query_history(Ctx), None)
    /\ UNCHANGED << argv, environ, phase, query_runner, registry, db_context,
                    stdout, exit_code, conn_checks, backend_log >>

ExecuteQuery ==
    /\ phase = "serving"
    /\ "execute_query" \in registry.tools
    /\ Len(Ctx.query_history) < MaxHistory
    /\ \E query \in Queries : \E call \in RunQuery(query) :
        LET r == execute_query(query, Ctx, call)
        IN  /\ db_context' = Some(r.ctx)
            /\ response' = Respond("execute_query", r.out, r.doc)
            /\ backend_log' = LogQuery(query, call)
    /\ UNCHANGED << argv, environ, phase, query_runner, registry, stdout,
                    exit_code, conn_checks >>

ExecuteQueryJson ==
    /\ phase = "serving"
    /\ "execute_query_json" \in registry.tools
    /\ Len(Ctx.query_history) < MaxHistory
    /\ \E query \in Queries : \E call \in RunQuery(query) :
        LET r == execute_query_json(query, Ctx, call)
        IN  /\ db_context' = Some(r.ctx)
            /\ response' = Respond("execute_query_json", r.out, r.doc)
            /\ backend_log' = LogQuery(query, call)
    /\ UNCHANGED << argv, environ, phase, query_runner, registry, stdout,
                    exit_code, conn_checks >>

GetTableColumns ==
    /\ phase = "serving"
    /\ "get_table_columns" \in registry.tools
    /\ \E table_name \in Tables : \E call \in GetTableColumnsCall(table_name) :
        /\ response' = Respond("get_table_columns",
                               get_table_columns(table_name, call), None)
        /\ backend_log' = LogCall(call)
    /\ UNCHANGED << argv, environ, phase, query_runner, registry, db_context,
                    stdout, exit_code, conn_checks >>

GetTableTypes ==
    /\ phase = "serving"
    /\ "get_table_types" \in registry.tools
    /\ \E table_name \in Tables : \E call \in GetTableTypesCall(table_name) :
        /\ response' = Respond("get_table_types",
                               get_table_types(table_name, call), None)
        /\ backend_log' = LogCall(call)
    /\ UNCHANGED << argv, environ, phase, query_runner, registry, db_context,
                    stdout, exit_code, conn_checks >>

SqlQueryPrompt ==
    /\ phase = "serving"
    /\ "sql_query" \in registry.prompts
    /\ response' = Respond("sql_query", Return(sql_query), None)
    /\ UNCHANGED << argv, environ, phase, query_runner, registry, db_context,
                    stdout, exit_code, conn_checks, backend_log >>

ExplainQueryPrompt ==
    /\ phase = "serving"
    /\ "explain_query" \in registry.prompts
    /\ \E query \in Queries :
        response' = Respond("explain_query", Return(explain_query(query)), None)
    /\ UNCHANGED << argv, environ, phase, query_runner, registry, db_context,
                    stdout, exit_code, conn_checks, backend_log >>

OptimizeQueryPrompt ==
    /\ phase = "serving"
    /\ "optimize_query" \in registry.prompts
    /\ \E query \in Queries :
        response' = Respond("optimize_query", Return(optimize_query(query)), None)
    /\ UNCHANGED << argv, environ, phase, query_runner, registry, db_context,
                    stdout, exit_code, conn_checks, backend_log >>

Next ==
    \/ LoadModule
    \/ RegisterHandlers
    \/ Main
    \/ DbLifespanEnter
    \/ Shutdown
    \/ GetSchema
    \/ GetQueryHistory
    \/ ExecuteQuery
    \/ ExecuteQueryJson
    \/ GetTableColumns
    \/ GetTableTypes
    \/ SqlQueryPrompt
    \/ ExplainQueryPrompt
    \/ OptimizeQueryPrompt

Spec == Init /\ [][Next]_vars

-----------------------------------------------------------------------------
(* Vocabulary of the properties *)

\* The database kind is given neither by --db-type nor by DB_TYPE.
KindMissing ==
    /\ ~TruthyStr(argv.db_type)
    /\ "DB_TYPE" \notin DOMAIN environ \/ Getenv("DB_TYPE", "") = ""

\* The configuration is given neither by --db-config nor by DB_CONFIG.
ConfigMissing ==
    /\ ~TruthyStr(argv.db_config)
    /\ "DB_CONFIG" \notin DOMAIN environ \/ Getenv("DB_CONFIG", "") = ""

UsagePrinted == \E i \in 1..Len(stdout) : stdout[i] = "\nUsage:"

Serving == phase = "serving"

QueryOps == {"execute_query", "execute_query_json"}

BackendOps ==
    QueryOps \cup {"get_schema", "get_table_columns", "get_table_types"}

ReadOnlyOps ==
    {"get_schema", "get_query_history", "get_table_columns", "get_table_types",
     "sql_query", "explain_query", "optimize_query"}

\* s is a prefix of t
IsPrefix(s, t) == Len(s) <= Len(t) /\ SubSeq(t, 1, Len(s)) = s

\* The raw rows of the backend's last answer.
LastRows == DictGet(backend_log.last[1].result, "rows", << >>)

LastColumns == DictGet(backend_log.last[1].result, "columns", << >>)

\* The table line of raw row i of the backend's last answer: its cells in
\* the order of the declared columns.
LastRowLine(i) ==
    Join(" | ", [c \in 1..Len(LastColumns) |->
                    Str(DictGet(LastRows[i], DictGet(LastColumns[c], "name", ""),
                                PyNone))])

\* The last handler call was `op` and its backend call returned.
Answered(op) == response.op = op /\ ~backend_log.raised

\* A step of the running session that is a call of one of `ops`.
CallOf(ops) == phase = "serving" /\ phase' = "serving" /\ response'.op \in ops

ErrorText == response.kind = "text" /\ StartsWith(response.text, "Error")

-----------------------------------------------------------------------------
(* C1 *)

\* C1: whenever the database kind or the connection configuration is
\* missing from both the flags and the environment, startup fails: no
\* session is ever served and the process ends with a non-zero status.
C1_MissingConfigFailsStartup ==
    (KindMissing \/ ConfigMissing) =>
        /\ phase # "serving"
        /\ exit_code # None => exit_code[1] # 0

-----------------------------------------------------------------------------
(* C2 *)

HistoryBullets ==
    [i \in 1..Len(Ctx.query_history) |-> "- " \o Ctx.query_history[i]]

\* The history is the sequence of queries the backend answered, in order,
\* and the last get_query_history text lists exactly these as bullet lines.
HistoryRendered ==
    Serving =>
        /\ Ctx.query_history = backend_log.queries
        /\ (response.op = "get_query_history" /\ Len(Ctx.query_history) > 0) =>
               Lines(response.text) = << "Query history:" >> \o HistoryBullets

\* C2: within a session the history before a step is a prefix of the
\* history after it, it holds exactly the executed queries in execution
\* order, and get_query_history renders one bullet line per entry in that
\* order.
C2_HistoryAppendOnly ==
    /\ []HistoryRendered
    /\ [][(phase = "serving" /\ phase' = "serving") =>
              IsPrefix(db_context[1].query_history, db_context'[1].query_history)]_vars

C2_Witness ==
    /\ Serving
    /\ response.op = "get_query_history"
    /\ Ctx.query_history = << "SELECT * FROM users", "SELECT 1", "SELECT * FROM users" >>

-----------------------------------------------------------------------------
(* C3 *)

\* C3: the table text of execute_query for a result of N rows is the header
\* line, the separator line and then, for N > 10, exactly the lines of the
\* first 10 backend rows in backend order, an empty line and the note with
\* the true total N; for 1 <= N <= 10 exactly the N row lines and no note;
\* for N = 0 nothing but the empty end of the text.
C3_TableTruncation ==
    Answered("execute_query") =>
        LET N == Len(LastRows)
            lines == Lines(response.text)
            shown == IF N > 10 THEN 10 ELSE N
            note == "... and " \o ToString(N - 10) \o " more rows (total: "
                        \o ToString(N) \o ")"
        IN  /\ response.kind = "text"
            /\ Len(lines) = IF N = 0 THEN 3 ELSE IF N > 10 THEN 14 ELSE 2 + N
            /\ \A i \in 1..shown : lines[2 + i] = LastRowLine(i)
            /\ N = 0 => lines[3] = ""
            /\ N > 10 => lines[13] = "" /\ lines[14] = note

C3_Witness ==
    /\ Answered("execute_query")
    /\ Len(LastRows) = 11
    /\ Len(LastColumns) = 2

-----------------------------------------------------------------------------
(* C4 *)

-----------------------------------------------------------------------------
(* C5 *)

\* C5 as stated: when the backend call of a handler raises, the handler
\* returns a text that starts with "Error:".
C5_ErrorColonPrefix ==
    (response.op \in BackendOps /\ backend_log.raised) =>
        /\ response.kind = "text"
        /\ StartsWith(response.text, "Error:")

\* The opening words of each handler's error text.
ErrorPrefix(op) ==
    CASE op = "get_schema" -> "Error getting schema: "
      [] op \in QueryOps -> "Error executing query: "
      [] op = "get_table_columns" -> "Error getting columns for table "
      [] OTHER -> "Error getting types for table "

\* C5 (amended): no exception ever leaves a handler, and when the backend
\* call of get_schema, execute_query, execute_query_json, get_table_columns
\* or get_table_types raises, the handler returns a text that starts with
\* "Error " and the words of that operation ("Error getting schema: ",
\* "Error executing query: ", "Error getting columns for table ",
\* "Error getting types for table ").
C5_ErrorsReturnedAsText ==
    /\ response.kind # "raised"
    /\ (response.op \in BackendOps /\ backend_log.raised) =>
           /\ response.kind = "text"
           /\ StartsWith(response.text, ErrorPrefix(response.op))

C5_Witness ==
    /\ response.op = "get_schema"
    /\ backend_log.raised
    /\ response.text = "Error getting schema: permission denied"

-----------------------------------------------------------------------------
(* C6 *)

\* Startup ended in failure.
StartupFailed == phase = "exited" /\ exit_code = Some(1)

\* A session is served only with a constructed backend whose connectivity
\* check, made once, passed; a failed startup never served an operation.
CheckedBeforeServing ==
    /\ conn_checks <= 1
    /\ (Serving \/ response # NoResponse) => query_runner # None /\ conn_checks = 1
    /\ StartupFailed => response = NoResponse /\ db_context = None

\* C6 as stated: the backend is constructed and checked before a session
\* is served, and every failed startup ends with the usage message.
C6_UsageOnEveryStartupFailure ==
    /\ CheckedBeforeServing
    /\ StartupFailed => UsagePrinted

\* C6 (amended): the backend is constructed and its connectivity checked,
\* once, before a session is served, and a failed startup never serves an
\* operation; a failure of configuration or of the backend's construction
\* ends the process with the usage message and status 1, while a failed
\* connectivity check ends it with status 1 and no usage message.
C6_StartupFailureIsFatal ==
    /\ CheckedBeforeServing
    /\ (StartupFailed /\ conn_checks = 0) => UsagePrinted
    /\ (StartupFailed /\ conn_checks = 1) => ~UsagePrinted
    /\ (phase = "exited" /\ exit_code # Some(1)) => exit_code = Some(0) /\ conn_checks = 1

C6_Witness ==
    /\ StartupFailed
    /\ conn_checks = 1
    /\ query_runner # None

-----------------------------------------------------------------------------
(* C7 *)

Registered == phase \in {"registered", "running", "serving"}

\* C7 as stated: one resource, six tools and three prompts are registered.
C7_SixTools ==
    Registered =>
        /\ registry.resources = {"schema://all"}
        /\ Cardinality(registry.tools) = 6
        /\ registry.prompts = {"sql_query", "explain_query", "optimize_query"}

\* C7 (amended): the registered surface is exactly the resource
\* schema://all, the five tools get_query_history, execute_query,
\* execute_query_json, get_table_columns and get_table_types, and the three
\* prompts sql_query, explain_query and optimize_query; once registered it
\* never changes.
C7_FixedSurface ==
    /\ [](Registered =>
            /\ registry.resources = {"schema://all"}
            /\ registry.tools = {"get_query_history", "execute_query",
                                 "execute_query_json", "get_table_columns",
                                 "get_table_types"}
            /\ Cardinality(registry.tools) = 5
            /\ registry.prompts = {"sql_query", "explain_query", "optimize_query"})
    /\ [][registry # EmptyRegistry => registry' = registry]_vars

C7_Witness ==
    /\ phase = "exited"
    /\ exit_code = Some(0)
    /\ response.op = "optimize_query"
    /\ Cardinality(registry.tools) = 5

-----------------------------------------------------------------------------
(* C8 *)

\* C8: a call of get_schema, get_query_history, get_table_columns,
\* get_table_types or of a prompt generator leaves the session's last
\* query, last result and history as they were, whatever it returns.
C8_ReadOnlyHandlers ==
    [][CallOf(ReadOnlyOps) => db_context' = db_context]_vars

C8_Witness ==
    /\ Serving
    /\ response.op = "get_table_types"
    /\ ErrorText
    /\ Len(Ctx.query_history) = 2

-----------------------------------------------------------------------------
(* C9 *)

\* The text a query handler returned in the step begins with the error words.
QueryErrorReturned ==
    /\ CallOf(QueryOps)
    /\ response'.kind = "text"
    /\ StartsWith(response'.text, "Error executing query:")

\* C9 as stated: a query call that returns the error text leaves the
\* session as it was.
C9_ErrorRecordsNothing ==
    [][QueryErrorReturned => db_context' = db_context]_vars

\* C9 (amended): a query call that returns the error text because the
\* backend's run_query raised leaves the session as it was; when the error
\* arises after run_query returned (execute_query_json failing to encode the
\* result), the query and its result are already recorded as last query,
\* last result and last history entry.
C9_BackendErrorRecordsNothing ==
    [][QueryErrorReturned =>
          IF backend_log'.raised
          THEN db_context' = db_context
          ELSE LET answered == backend_log'.last[1]
               IN  db_context'[1] =
                       [db_context[1] EXCEPT
                            !.last_query = Some(answered.query),
                            !.last_result = Some(answered.result),
                            !.query_history = Append(@, answered.query)]]_vars

C9_Witness ==
    /\ Serving
    /\ response.op = "execute_query"
    /\ response.text = "Error executing query: relation does not exist"
    /\ backend_log.raised
    /\ Len(Ctx.query_history) = 2

-----------------------------------------------------------------------------
(* C10 *)

\* C10: in a running session the history is empty exactly when last query
\* and last result are unset, and otherwise the last query is the final
\* history entry and the last result is what the backend returned for it.
C10_LastQueryAgreesWithHistory ==
    Serving =>
        /\ Len(Ctx.query_history) = 0 <=>
               (Ctx.last_query = None /\ Ctx.last_result = None)
        /\ Len(Ctx.query_history) = 0 <=>
               (Ctx.last_query = None \/ Ctx.last_result = None)
        /\ Len(Ctx.query_history) > 0 =>
               /\ Ctx.last_query = Some(Ctx.query_history[Len(Ctx.query_history)])
               /\ backend_log.last # None
               /\ Ctx.last_query = Some(backend_log.last[1].query)
               /\ Ctx.last_result = Some(backend_log.last[1].result)

C10_Witness ==
    /\ Serving
    /\ Len(Ctx.query_history) = 3
    /\ Ctx.query_history[2] # Ctx.query_history[3]
    /\ Ctx.last_query = Some("SELECT 1")
    /\ backend_log.raised

====
